---- MODULE Spec2Model ----
(***************************************************************************)
(* A model of the blob codec (Encrypt / DecryptedIO) and of the name-group *)
(* resolver (NameGroup) of the codn / ksf key-value store.                 *)
(*                                                                         *)
(* Bytes are integers 0..255 and byte strings are sequences of them, laid  *)
(* out exactly as the code writes them.  Values the code keeps in 32 or 64 *)
(* bits are kept as big-endian byte tuples wherever they could exceed the  *)
(* range of the model checker's integers (the CRC-32 register, above all). *)
(***************************************************************************)
EXTENDS Integers, Sequences, FiniteSets, TLC

\* ------------------------------------------------------------------------
\* Optional values: Python's None is the empty tuple, a value v is <<v>>.
\* ------------------------------------------------------------------------
None == << >>

Some(v) == << v >>

\* F applied to the value of v: v is worked out once, before F uses it
With(v, F(_)) == CHOOSE r \in {F(x) : x \in {v}} : TRUE

\* ------------------------------------------------------------------------
\* Bit operations on bytes
\* ------------------------------------------------------------------------
RECURSIVE XorBits(_, _, _)
XorBits(a, b, n) ==
    IF n = 0 THEN 0
    ELSE ((a + b) % 2) + 2 * XorBits(a \div 2, b \div 2, n - 1)

Xor4Tab == [a \in 0..15 |-> [b \in 0..15 |-> XorBits(a, b, 4)]]

\* a ^ b on two bytes
XorByte(a, b) ==
    16 * Xor4Tab[a \div 16][b \div 16] + Xor4Tab[a % 16][b % 16]

\* 2^k for the bit numbers of a byte
Pow2(k) == <<1, 2, 4, 8, 16, 32, 64, 128>>[k + 1]

SubBytes(s, from, n) == [i \in 1..n |-> s[from + i]]

\* ------------------------------------------------------------------------
\* zlib.crc32: CRC-32 (IEEE 802.3), reflected, polynomial 0xEDB88320,
\* initial value and final xor 0xFFFFFFFF.  The 32-bit register is the tuple
\* <<b3, b2, b1, b0>>, most significant byte first, which is also the four
\* bytes uint32_to_bytes gives for the checksum.
\* ------------------------------------------------------------------------
CrcPoly == <<237, 184, 131, 32>>

CrcShiftR1(c) ==
    << c[1] \div 2,
       (c[1] % 2) * 128 + c[2] \div 2,
       (c[2] % 2) * 128 + c[3] \div 2,
       (c[3] % 2) * 128 + c[4] \div 2 >>

Xor32(c, d) ==
    << XorByte(c[1], d[1]), XorByte(c[2], d[2]),
       XorByte(c[3], d[3]), XorByte(c[4], d[4]) >>

CrcBitStep(c) ==
    IF c[4] % 2 = 1 THEN Xor32(CrcShiftR1(c), CrcPoly) ELSE CrcShiftR1(c)

RECURSIVE CrcBitSteps(_, _)
CrcBitSteps(c, n) == IF n = 0 THEN c ELSE CrcBitSteps(CrcBitStep(c), n - 1)

CrcTable == [i \in 0..255 |-> CrcBitSteps(<<0, 0, 0, i>>, 8)]

\* crc = table[(crc ^ byte) & 0xFF] ^ (crc >> 8)
CrcUpdate(c, byte) ==
    With(CrcTable[XorByte(c[4], byte)],
         LAMBDA t : << t[1], XorByte(t[2], c[1]), XorByte(t[3], c[2]),
                       XorByte(t[4], c[3]) >>)

\* the register after the bytes data[lo..hi], by halves (the evaluation stays shallow)
RECURSIVE CrcFold(_, _, _, _)
CrcFold(c, data, lo, hi) ==
    IF lo > hi THEN c
    ELSE IF lo = hi THEN CrcUpdate(c, data[lo])
    ELSE With(CrcFold(c, data, lo, (lo + hi) \div 2),
              LAMBDA left : CrcFold(left, data, (lo + hi) \div 2 + 1, hi))

crc32(data) ==
    With(CrcFold(<<255, 255, 255, 255>>, data, 1, Len(data)),
         LAMBDA c : << 255 - c[1], 255 - c[2], 255 - c[3], 255 - c[4] >>)

\* ------------------------------------------------------------------------
\* _20_byte_funcs: fixed-width big-endian integers.  The encoders are used
\* on values that fit their width (a value that does not makes the Python
\* call raise; Encrypt's callers below test the range first).  A decoded
\* value beyond the model checker's integers is cut to 2147483647: only a
\* header whose CRC-32 matched is ever decoded, so no run reaches that.
\* ------------------------------------------------------------------------
uint8_to_bytes(n) == << n >>

uint24_to_bytes(n) == << (n \div 65536) % 256, (n \div 256) % 256, n % 256 >>

uint32_to_bytes(n) ==
    << (n \div 16777216) % 256, (n \div 65536) % 256, (n \div 256) % 256, n % 256 >>

Complement(b) == [i \in 1..Len(b) |-> 255 - b[i]]

int64_to_bytes(n) ==
    IF n >= 0 THEN <<0, 0, 0, 0>> \o uint32_to_bytes(n)
    ELSE Complement(<<0, 0, 0, 0>> \o uint32_to_bytes(-(n + 1)))

bytes_to_uint8(b) == b[1]

bytes_to_uint24(b) == b[1] * 65536 + b[2] * 256 + b[3]

bytes_to_uint32(b) ==
    IF b[1] >= 128 THEN 2147483647
    ELSE b[1] * 16777216 + b[2] * 65536 + b[3] * 256 + b[4]

bytes_to_int64(b) ==
    IF b[1] < 128
    THEN IF SubBytes(b, 0, 4) = <<0, 0, 0, 0>>
         THEN bytes_to_uint32(SubBytes(b, 4, 4))
         ELSE 2147483647
    ELSE IF SubBytes(b, 0, 4) = <<255, 255, 255, 255>> /\ b[5] >= 128
         THEN -(bytes_to_uint32(Complement(SubBytes(b, 4, 4)))) - 1
         ELSE -2147483647

\* ------------------------------------------------------------------------
\* Sizes
\* ------------------------------------------------------------------------
ENCRYPTION_NONCE_LEN == 8

HEADER_CHECKSUM_LEN == 4

VERSION_LEN == 1

\* Imprint: a 24-byte nonce and a 32-byte digest
IMPRINT_NONCE_LEN == 24

IMPRINT_DIGEST_LEN == 32

FULL_LEN == IMPRINT_NONCE_LEN + IMPRINT_DIGEST_LEN

\* IntroPadding(64)
INTRO_PADDING_MAX == 64

\* FORMAT_ID, FORMAT_VER, ITEM_VER, FULL_SIZE, PARTS_LEN, PART_IDX, PART_SIZE
HEADER_LEN == 2 + VERSION_LEN + 8 + 4 + 1 + 1 + 3

\* The largest body of one part.  The program's value is far larger; the model
\* keeps it small, and every size below is derived from it.
MAX_PART_CONTENT_SIZE == 2

\* A blob holding the longest intro padding and the largest part fits.
MAX_BLOB_SIZE ==
    2 * FULL_LEN + ENCRYPTION_NONCE_LEN + INTRO_PADDING_MAX + HEADER_LEN
      + HEADER_CHECKSUM_LEN + MAX_PART_CONTENT_SIZE + 4

CLUSTER_SIZE == MAX_BLOB_SIZE

\* ------------------------------------------------------------------------
\* Random byte strings.  A draw of n random bytes is the string Fill(seed, n)
\* for one of the seeds a behaviour may choose.
\* ------------------------------------------------------------------------
Fill(seed, n) == [i \in 1..n |-> (seed * 59 + i * 29) % 256]

\* ------------------------------------------------------------------------
\* Keyed hash and stream cipher
\* ------------------------------------------------------------------------
\* a position-weighted sum of the bytes s[lo..hi], by halves
RECURSIVE MixRange(_, _, _)
MixRange(s, lo, hi) ==
    IF lo > hi THEN 0
    ELSE IF lo = hi THEN ((s[lo] + 1) * (lo * lo + 7 * lo + 3)) % 65521
    ELSE LET mid == (lo + hi) \div 2
         IN  (MixRange(s, lo, mid) + MixRange(s, mid + 1, hi)) % 65521

Mix(s) == MixRange(s, 1, Len(s))

\* CodenameKey.as_bytes: the 32 bytes of the key of codename n
CodenameKey(n) == [i \in 1..32 |-> (n * 53 + i * 7) % 256]

\* the digest over key || nonce
ImprintDigest(key, nonce) ==
    With(Mix(key \o nonce),
         LAMBDA h : [j \in 1..IMPRINT_DIGEST_LEN |->
            (h + (h \div 256) * j + 3 * nonce[((j - 1) % IMPRINT_NONCE_LEN) + 1] + j * j) % 256])

\* Imprint(cnk).as_bytes for the nonce drawn
Imprint(cnk, nonce) == nonce \o ImprintDigest(cnk, nonce)

pk_matches_imprint_bytes(fpk, imp) ==
    /\ Len(imp) = FULL_LEN
    /\ SubBytes(imp, IMPRINT_NONCE_LEN, IMPRINT_DIGEST_LEN)
         = ImprintDigest(fpk, SubBytes(imp, 0, IMPRINT_NONCE_LEN))

\* Cryptographer: ChaCha20 under (key, nonce); pos counts the keystream bytes used
Cryptographer(fpk, nonce) == [nonce |-> nonce, seed |-> Mix(fpk \o nonce), pos |-> 0]

KeystreamByte(seed, i) == (seed + (seed \div 256) * (i % 17) + 13 * i + ((i * i) % 251)) % 256

\* cipher.encrypt(data) and cipher.decrypt(data): the keystream xor-ed on
CipherApply(cfg, data) ==
    [i \in 1..Len(data) |-> XorByte(data[i], KeystreamByte(cfg.seed, cfg.pos + i - 1))]

CipherAdvance(cfg, n) == [cfg EXCEPT !.pos = @ + n]

\* ------------------------------------------------------------------------
\* IntroPadding(64): one random byte b, then b mod 64 random bytes
\* ------------------------------------------------------------------------
first_byte_to_len(b) == b % INTRO_PADDING_MAX

gen_bytes(first, seed) == << first >> \o Fill(seed, first_byte_to_len(first))

\* ------------------------------------------------------------------------
\* _common.read_or_fail(stream, n) on a stream holding data, positioned at pos:
\* the n bytes, or InsufficientData with the stream read to its end.
\* ------------------------------------------------------------------------
\* a read that gives the bytes there are and never fails
read_or_fail_short(data, pos, n) ==
    IF Len(data) - pos >= n
    THEN [err |-> "", bytes |-> SubBytes(data, pos, n), pos |-> pos + n]
    ELSE [err |-> "", bytes |-> SubBytes(data, pos, Len(data) - pos), pos |-> Len(data)]

read_or_fail(data, pos, n) ==
    IF Len(data) - pos >= n
    THEN [err |-> "", bytes |-> SubBytes(data, pos, n), pos |-> pos + n]
    ELSE [err |-> "InsufficientData", bytes |-> << >>, pos |-> Len(data)]

get_stream_size(data) == Len(data)

\* ------------------------------------------------------------------------
\* State
\* ------------------------------------------------------------------------
VARIABLES
    enc,        \* the Encrypt object: None before its construction, else <<its fields>>
    outfile,    \* the bytes the last io_to_io wrote to its output
    blobs,      \* the blobs at hand, in index order: the BlobsIndexedReader's content
    origin,     \* for each blob, how it was made (history, read by the properties only)
    dio,        \* the DecryptedIO under test: None, or <<its fields>>
    first,      \* the outcome of the first access to each tier of dio (history)
    ng,         \* the NameGroup built last: None, or <<its fields>>
    disk,       \* the target file and its temporary sibling, and where io_to_file stands
    store,      \* for each codename key, the set calls made and the payload of the last (history)
    last        \* the last call made and how it ended

vars == <<enc, outfile, blobs, origin, dio, first, ng, disk, store, last>>

\* how a call ended: err is "" or the exception raised, val the value returned;
\* pos0 is the decoder's stream position when the call started and again tells
\* whether the same decoder had been asked the same before
Outcome(op, err, val) ==
    [op |-> op, err |-> err, val |-> val, pos0 |-> 0, again |-> FALSE]

\* ------------------------------------------------------------------------
\* class Header
\* ------------------------------------------------------------------------
Header(format_version, data_version, data_size, parts_len, part_idx, part_size) ==
    [format_version |-> format_version, data_version |-> data_version,
     data_size |-> data_size, parts_len |-> parts_len,
     part_idx |-> part_idx, part_size |-> part_size]

FORMAT_ID == <<76, 83>>   \* 'LS'.encode('ascii')

\* ------------------------------------------------------------------------
\* Encrypt.__init__: the exception it raises ("" when it returns)
\* ------------------------------------------------------------------------
\* a faulty variant: a part_size left out is accepted for every part
EncryptInitError_lax(part_idx, parts_len, part_size) ==
    IF ~(0 <= part_idx /\ part_idx <= 255) THEN "ValueError"
    ELSE IF ~(1 <= parts_len /\ parts_len <= 255 + 1) THEN "ValueError"
    ELSE IF part_size # None
            /\ ~(0 <= part_size[1] /\ part_size[1] <= MAX_PART_CONTENT_SIZE)
         THEN "ValueError"
    ELSE ""

EncryptInitError(part_idx, parts_len, part_size) ==
    IF ~(0 <= part_idx /\ part_idx <= 255) THEN "ValueError"
    ELSE IF ~(1 <= parts_len /\ parts_len <= 255 + 1) THEN "ValueError"
    ELSE IF part_size # None
            /\ ~(0 <= part_size[1] /\ part_size[1] <= MAX_PART_CONTENT_SIZE)
         THEN "ValueError"
    ELSE IF part_size = None /\ ~(part_idx = 0 /\ parts_len = 1) THEN "ValueError"
    ELSE ""

NewEncrypt(cnk, data_version, part_idx, parts_len, part_size) ==
    \E err \in {EncryptInitError(part_idx, parts_len, part_size)} :
        /\ enc' = IF err = ""
                  THEN Some([cnk |-> cnk, data_version |-> data_version,
                             part_idx |-> part_idx, parts_len |-> parts_len,
                             part_size |-> part_size])
                  ELSE None
        \* val keeps the arguments the constructor was called with
        /\ last' = Outcome("Encrypt", err,
                           Some([cnk |-> cnk, data_version |-> data_version,
                                 part_idx |-> part_idx, parts_len |-> parts_len,
                                 part_size |-> part_size]))
        /\ UNCHANGED <<outfile, blobs, origin, dio, first, ng, disk, store>>

\* ------------------------------------------------------------------------
\* Encrypt.io_to_io(source, outfile).  source holds the bytes src and stands
\* at srcpos.  draw is what the random sources give this call: the seeds of
\* the two imprint nonces (a, b) and of the cipher nonce (c), the first byte
\* of the intro padding (ip), the seed of the padding bytes (pad) and the
\* place of target_size in current_size..MAX_BLOB_SIZE (tail: 0 the least,
\* 1 the next, 2 the greatest).
\* ------------------------------------------------------------------------
\* a faulty variant: the part index written before the parts count
HeaderBytes_swapped(e, full_size, part_size) ==
    FORMAT_ID \o <<1>> \o int64_to_bytes(e.data_version)
      \o uint32_to_bytes(full_size) \o uint8_to_bytes(e.part_idx)
      \o uint8_to_bytes(e.parts_len - 1) \o uint24_to_bytes(part_size)

HeaderBytes(e, full_size, part_size) ==
    FORMAT_ID \o <<1>> \o int64_to_bytes(e.data_version)
      \o uint32_to_bytes(full_size) \o uint8_to_bytes(e.parts_len - 1)
      \o uint8_to_bytes(e.part_idx) \o uint24_to_bytes(part_size)

\* a faulty variant: the upper end of the range one too high
TargetSize_over(current_size, tail) ==
    IF tail = 0 THEN current_size
    ELSE IF tail = 1 /\ current_size < MAX_BLOB_SIZE THEN current_size + 1
    ELSE MAX_BLOB_SIZE + 1

\* random.randint(current_size, MAX_BLOB_SIZE)
TargetSize(current_size, tail) ==
    IF tail = 0 THEN current_size
    ELSE IF tail = 1 /\ current_size < MAX_BLOB_SIZE THEN current_size + 1
    ELSE MAX_BLOB_SIZE

\* the bytes io_to_io writes before the random padding: the two imprints, the
\* cipher nonce and, encrypted, intro padding, header, header CRC, body, body CRC
Written(e, imprint_a, imprint_b, c0, intro, header_bytes, body_bytes) ==
    imprint_a \o imprint_b \o c0.nonce
      \o CipherApply(c0, intro \o header_bytes \o crc32(header_bytes)
                           \o body_bytes \o crc32(body_bytes))

\* get_random_bytes(n) of the tail: the bytes drawn, draw.head first
get_random_bytes(draw, n) == SubBytes(draw.head \o Fill(draw.pad + 1, n), 0, n)

IoResult(err, part_size, out, srcpos, full_size, body_bytes, intro_len, current_size) ==
    [err |-> err, part_size |-> part_size, out |-> out, srcpos |-> srcpos,
     full_size |-> full_size, body |-> body_bytes,
     header_at |-> 2 * FULL_LEN + ENCRYPTION_NONCE_LEN + intro_len,
     current_size |-> current_size]

io_to_io(e, src, srcpos, draw) ==
    With(<<Imprint(e.cnk, Fill(draw.a, IMPRINT_NONCE_LEN)),
           Imprint(e.cnk, Fill(draw.b, IMPRINT_NONCE_LEN)),
           get_stream_size(src),
           IF e.part_size = None THEN get_stream_size(src) ELSE e.part_size[1],
           gen_bytes(draw.ip, draw.pad)>>,
      LAMBDA v :
        \* v: imprint_a, imprint_b, full_size, self.part_size, the intro padding
        IF v[1] = v[2]
        THEN IoResult("AssertionError", e.part_size, << >>, srcpos, v[3], << >>, 0, 0)
        ELSE With(read_or_fail(src, srcpos, v[4]),
          LAMBDA body :
            IF body.err # ""
            THEN IoResult(body.err, Some(v[4]), << >>, body.pos, v[3], << >>, 0, 0)
            ELSE With(Written(e, v[1], v[2],
                              Cryptographer(e.cnk, Fill(draw.c, ENCRYPTION_NONCE_LEN)),
                              v[5], HeaderBytes(e, v[3], v[4]), body.bytes),
              LAMBDA written :
                IF Len(written) > MAX_BLOB_SIZE
                THEN IoResult("AssertionError", Some(v[4]), written, body.pos,
                              v[3], body.bytes, Len(v[5]), Len(written))
                ELSE IoResult("", Some(v[4]),
                              written \o get_random_bytes(draw,
                                              TargetSize(Len(written), draw.tail)
                                                - Len(written)),
                              body.pos, v[3], body.bytes, Len(v[5]), Len(written)))))

\* what origin keeps of a blob io_to_io wrote: the arguments of the Encrypt
\* object and of the call, and where the header and the tail start
RealOrigin(e, src, srcpos, draw, r) ==
    [kind |-> "real", cnk |-> e.cnk, args |-> e, src |-> src, srcpos |-> srcpos,
     draw |-> draw, part_size |-> r.part_size[1], header_at |-> r.header_at,
     current_size |-> r.current_size, flipped |-> 0, cut |-> FALSE]

IoToIo(src, srcpos, draw) ==
    /\ enc # None
    /\ \E r \in {io_to_io(enc[1], src, srcpos, draw)} :
           /\ enc' = Some([enc[1] EXCEPT !.part_size = r.part_size])
           /\ outfile' = r.out
           /\ last' = Outcome("io_to_io", r.err, None)
           /\ IF r.err = ""
              THEN /\ blobs' = Append(blobs, r.out)
                   /\ origin' = Append(origin, RealOrigin(enc[1], src, srcpos, draw, r))
              ELSE UNCHANGED <<blobs, origin>>
    /\ UNCHANGED <<dio, first, ng, disk, store>>

\* ------------------------------------------------------------------------
\* _fakes.create_fake_bytes(fpk): one imprint, then random bytes
\* ------------------------------------------------------------------------
create_fake_bytes(fpk, a, pad) ==
    Imprint(fpk, Fill(a, IMPRINT_NONCE_LEN)) \o Fill(pad, CLUSTER_SIZE - FULL_LEN)

FakeOrigin(fpk) ==
    [kind |-> "fake", cnk |-> fpk, flipped |-> 0, cut |-> FALSE]

CreateFake(fpk, a, pad) ==
    /\ blobs' = Append(blobs, create_fake_bytes(fpk, a, pad))
    /\ origin' = Append(origin, FakeOrigin(fpk))
    /\ last' = Outcome("create_fake_bytes", "", None)
    /\ UNCHANGED <<enc, outfile, dio, first, ng, disk, store>>

\* ------------------------------------------------------------------------
\* DecryptedIO
\* ------------------------------------------------------------------------
\* __init__: the stream holds all bytes of the source and stands at 0
DecryptedIO(fpk, source) ==
    [fpk |-> fpk, data |-> source, pos |-> 0, header |-> None,
     data_read |-> FALSE, belongs |-> None, contains |-> None, cfg |-> None]

\* what a property or method gives: the decoder after it, the exception raised
\* ("" when it returns) and the value returned
Ret(d, err, val) == [d |-> d, err |-> err, val |-> val]

\* __read_and_decrypt(n)
read_and_decrypt(d, n) ==
    IF Len(d.data) - d.pos >= n
    THEN [err |-> "",
          bytes |-> CipherApply(d.cfg[1], SubBytes(d.data, d.pos, n)),
          d |-> [d EXCEPT !.pos = @ + n, !.cfg = Some(CipherAdvance(@[1], n))]]
    ELSE [err |-> "InsufficientData", bytes |-> << >>,
          d |-> [d EXCEPT !.pos = Len(d.data)]]

\* the check of one imprint read by read_or_fail
ImprintMatches(fpk, imp) ==
    IF imp.err = "" THEN pk_matches_imprint_bytes(fpk, imp.bytes) ELSE FALSE

\* the property belongs_to_namegroup: reads and checks IMPRINT_A once
belongs_to_namegroup(d) ==
    IF d.belongs # None THEN Ret(d, "", d.belongs[1])
    ELSE With(read_or_fail(d.data, 0, FULL_LEN),
          LAMBDA imp :
            With(ImprintMatches(d.fpk, imp),
              LAMBDA b : Ret([d EXCEPT !.belongs = Some(b), !.pos = imp.pos], "", b)))

\* the property contains_data: reads and checks IMPRINT_B once
contains_data(d) ==
    With(belongs_to_namegroup(d),
      LAMBDA g :
        IF ~g.val THEN Ret(g.d, "", FALSE)
        ELSE IF g.d.contains # None THEN Ret(g.d, "", g.d.contains[1])
        ELSE With(read_or_fail(g.d.data, g.d.pos, FULL_LEN),
          LAMBDA imp :
            With(ImprintMatches(g.d.fpk, imp),
              LAMBDA b :
                Ret([g.d EXCEPT !.contains = Some(b), !.pos = imp.pos], "", b))))

\* format_id.decode('ascii') == "LS", as the assert statement evaluates it
FormatIdError(format_id) ==
    IF \E i \in 1..Len(format_id) : format_id[i] >= 128 THEN "UnicodeDecodeError"
    ELSE IF format_id # FORMAT_ID THEN "AssertionError"
    ELSE ""

\* a faulty variant: the header CRC is never compared
HeaderCrcError_off(header_bytes, header_crc) == ""

HeaderCrcError(header_bytes, header_crc) ==
    IF crc32(header_bytes) # header_crc THEN "ChecksumMismatch" ELSE ""

\* consecutive __read_and_decrypt calls of the lengths lens[k..], up to the
\* first that raises; r holds the decoder, the exception and the fields read
RECURSIVE ReadFields(_, _, _)
ReadFields(r, lens, k) ==
    IF k > Len(lens) \/ r.err # "" THEN r
    ELSE With(read_and_decrypt(r.d, lens[k]),
          LAMBDA x :
            ReadFields([d |-> x.d, err |-> x.err,
                        fields |-> IF x.err = "" THEN Append(r.fields, x.bytes)
                                   ELSE r.fields],
                       lens, k + 1))

Fields(d) == [d |-> d, err |-> "", fields |-> << >>]

\* __read_header from data_version on; format_id and format_version are read
HeaderRest(d, format_id, format_version) ==
    With(ReadFields(Fields(d), <<8, 4, 1, 1, 3, HEADER_CHECKSUM_LEN>>, 1),
      LAMBDA r :
        IF r.err # "" THEN Ret(r.d, r.err, None)
        ELSE With(HeaderCrcError(format_id \o format_version \o r.fields[1]
                                   \o r.fields[2] \o r.fields[3] \o r.fields[4]
                                   \o r.fields[5],
                                 r.fields[6]),
          LAMBDA crc_err :
            IF crc_err # "" THEN Ret(r.d, crc_err, None)
            ELSE Ret(r.d, "",
                     Header(format_version[1],
                            bytes_to_int64(r.fields[1]),
                            bytes_to_uint32(r.fields[2]),
                            bytes_to_uint8(r.fields[3]) + 1,
                            bytes_to_uint8(r.fields[4]),
                            bytes_to_uint24(r.fields[5])))))

\* __read_header from format_id on; the intro padding is skipped
HeaderIdAndVersion(d) ==
    With(read_and_decrypt(d, 2),
      LAMBDA format_id :
        IF format_id.err # "" THEN Ret(format_id.d, format_id.err, None)
        ELSE IF FormatIdError(format_id.bytes) # ""
             THEN Ret(format_id.d, FormatIdError(format_id.bytes), None)
        ELSE With(read_and_decrypt(format_id.d, VERSION_LEN),
          LAMBDA format_version :
            IF format_version.err # ""
            THEN Ret(format_version.d, format_version.err, None)
            ELSE IF format_version.bytes[1] # 1
                 THEN Ret(format_version.d, "AssertionError", None)
            ELSE HeaderRest(format_version.d, format_id.bytes, format_version.bytes)))

\* __read_header
read_header(d) ==
    With(read_or_fail(d.data, d.pos, ENCRYPTION_NONCE_LEN),
      LAMBDA nonce :
        IF nonce.err # "" THEN Ret([d EXCEPT !.pos = nonce.pos], nonce.err, None)
        ELSE With(read_and_decrypt(
                      [d EXCEPT !.pos = nonce.pos,
                                !.cfg = Some(Cryptographer(d.fpk, nonce.bytes))], 1),
          LAMBDA ip_first :
            IF ip_first.err # "" THEN Ret(ip_first.d, ip_first.err, None)
            ELSE IF first_byte_to_len(ip_first.bytes[1]) > 0
            THEN With(read_and_decrypt(ip_first.d,
                                       first_byte_to_len(ip_first.bytes[1])),
                   LAMBDA ip :
                     IF ip.err # "" THEN Ret(ip.d, ip.err, None)
                     ELSE HeaderIdAndVersion(ip.d))
            ELSE HeaderIdAndVersion(ip_first.d)))

\* a faulty variant: the header is read without the two imprint checks
header_unguarded(d) ==
    IF d.header # None THEN Ret(d, "", d.header[1])
    ELSE With(read_header([d EXCEPT !.pos = 2 * FULL_LEN]),
           LAMBDA h :
             IF h.err # "" THEN Ret(h.d, h.err, None)
             ELSE Ret([h.d EXCEPT !.header = Some(h.val)], "", h.val))

\* the property header
header(d) ==
    With(belongs_to_namegroup(d),
      LAMBDA g :
        IF ~g.val THEN Ret(g.d, "GroupImprintMismatch", None)
        ELSE With(contains_data(g.d),
          LAMBDA c :
            IF ~c.val THEN Ret(c.d, "ItemImprintMismatch", None)
            ELSE IF c.d.header # None THEN Ret(c.d, "", c.d.header[1])
            ELSE With(read_header(c.d),
              LAMBDA h :
                IF h.err # "" THEN Ret(h.d, h.err, None)
                ELSE Ret([h.d EXCEPT !.header = Some(h.val)], "", h.val))))

BodyCrcError(body, body_crc) ==
    IF crc32(body) # body_crc THEN "ChecksumMismatch" ELSE ""

\* read_data()
read_data(d) ==
    IF d.data_read THEN Ret(d, "RuntimeError", None)
    ELSE With(header(d),
      LAMBDA h :
        IF h.err # "" THEN Ret(h.d, h.err, None)
        ELSE With(ReadFields(Fields(h.d), <<h.val.part_size, 4>>, 1),
          LAMBDA r :
            IF r.err # "" THEN Ret(r.d, r.err, None)
            ELSE IF BodyCrcError(r.fields[1], r.fields[2]) # ""
                 THEN Ret(r.d, BodyCrcError(r.fields[1], r.fields[2]), None)
            ELSE Ret([r.d EXCEPT !.data_read = TRUE], "", r.fields[1])))

\* ------------------------------------------------------------------------
\* Calls on the decoder under test
\* ------------------------------------------------------------------------
NoFirst == [belongs_to_namegroup |-> None, contains_data |-> None,
            header |-> None, read_data |-> None]

NewDio(fpk, i) ==
    /\ i \in 1..Len(blobs)
    /\ dio' = Some(DecryptedIO(fpk, blobs[i]))
    /\ first' = NoFirst
    /\ last' = Outcome("DecryptedIO", "", None)
    /\ UNCHANGED <<enc, outfile, blobs, origin, ng, disk, store>>

\* the call op on dio ended as r
Called(op, r) ==
    /\ dio' = Some(r.d)
    /\ last' = [op |-> op, err |-> r.err, val |-> r.val, pos0 |-> dio[1].pos,
                again |-> first[op] # None]
    /\ first' = IF first[op] = None
                THEN [first EXCEPT ![op] = Some([err |-> r.err, val |-> r.val])]
                ELSE first
    /\ UNCHANGED <<enc, outfile, blobs, origin, ng, disk, store>>

GetBelongsToNamegroup ==
    /\ dio # None
    /\ \E r \in {belongs_to_namegroup(dio[1])} : Called("belongs_to_namegroup", r)

GetContainsData ==
    /\ dio # None
    /\ \E r \in {contains_data(dio[1])} : Called("contains_data", r)

GetHeader ==
    /\ dio # None
    /\ \E r \in {header(dio[1])} : Called("header", r)

ReadData ==
    /\ dio # None
    /\ \E r \in {read_data(dio[1])} : Called("read_data", r)

\* ------------------------------------------------------------------------
\* Damage to a stored blob (bit rot, a short file): one bit flipped, or the
\* blob cut to its first n bytes.  A blob is damaged before any decoder reads it.
\* ------------------------------------------------------------------------
FlipBit(i, at, bit) ==
    /\ i \in 1..Len(blobs)
    /\ at \in 0..(Len(blobs[i]) - 1)
    /\ dio = None /\ ng = None
    /\ origin[i].flipped = 0 /\ ~origin[i].cut
    /\ blobs' = [blobs EXCEPT ![i][at + 1] = XorByte(@, Pow2(bit))]
    /\ origin' = [origin EXCEPT ![i].flipped = at * 8 + bit + 1]
    /\ last' = Outcome("flip", "", None)
    /\ UNCHANGED <<enc, outfile, dio, first, ng, disk, store>>

Truncate(i, n) ==
    /\ i \in 1..Len(blobs)
    /\ n \in 0..(Len(blobs[i]) - 1)
    /\ dio = None /\ ng = None
    /\ origin[i].flipped = 0 /\ ~origin[i].cut
    /\ blobs' = [blobs EXCEPT ![i] = SubBytes(@, 0, n)]
    /\ origin' = [origin EXCEPT ![i].cut = TRUE]
    /\ last' = Outcome("truncate", "", None)
    /\ UNCHANGED <<enc, outfile, dio, first, ng, disk, store>>

\* ------------------------------------------------------------------------
\* NameGroup
\* ------------------------------------------------------------------------
NameGroupItem(idx, d) ==
    [idx |-> idx, dio |-> d, is_fresh_data |-> FALSE, is_fake |-> FALSE]

\* a faulty variant: every blob kept
ScanBlobs_all(bs, cnk) ==
    [i \in 1..Len(bs) |->
        NameGroupItem(i - 1, belongs_to_namegroup(DecryptedIO(cnk, bs[i])).d)]

\* the first loop: a decoder per blob, kept when the blob belongs to the name group
ScanBlobs(bs, cnk) ==
    SelectSeq([i \in 1..Len(bs) |->
                  NameGroupItem(i - 1, belongs_to_namegroup(DecryptedIO(cnk, bs[i])).d)],
              LAMBDA it : it.dio.belongs = Some(TRUE))

\* the decoders the first loop drops (history: nothing refers to them afterwards)
Skipped(bs, cnk) ==
    SelectSeq([i \in 1..Len(bs) |->
                  NameGroupItem(i - 1, belongs_to_namegroup(DecryptedIO(cnk, bs[i])).d)],
              LAMBDA it : it.dio.belongs # Some(TRUE))

\* a faulty variant: no item is marked as a fake
MarkFakes_none(items) ==
    [k \in 1..Len(items) |->
        With(contains_data(items[k].dio),
             LAMBDA c : [items[k] EXCEPT !.dio = c.d])]

\* "Marking fakes"
MarkFakes(items) ==
    [k \in 1..Len(items) |->
        With(contains_data(items[k].dio),
             LAMBDA c : [items[k] EXCEPT !.dio = c.d, !.is_fake = ~c.val])]

\* gf.dio.header of every content file, in list order
ContentHeaders(items) ==
    [k \in 1..Len(items) |->
        IF items[k].is_fake THEN Ret(items[k].dio, "", None) ELSE header(items[k].dio)]

\* the first content file whose header raises (0: none does)
FirstRaise(hs) ==
    IF \E k \in 1..Len(hs) : hs[k].err # ""
    THEN CHOOSE k \in 1..Len(hs) :
            /\ hs[k].err # ""
            /\ \A j \in 1..(k - 1) : hs[j].err = ""
    ELSE 0

\* a faulty variant: only a version of one file is taken as complete
IsFullSet_one(files_by_ver) ==
    Len(files_by_ver) = 1

\* files_by_ver[0].dio.header.parts_len == len(files_by_ver)
IsFullSet(files_by_ver) ==
    files_by_ver[1].dio.header[1].parts_len = Len(files_by_ver)

FilesByVer(items, ver) ==
    SelectSeq(items, LAMBDA gf : ~gf.is_fake /\ gf.dio.header[1].data_version = ver)

\* a faulty variant: the versions tried from minimum to maximum
FreshVersion_lowest(items, versions) ==
    With({ver \in versions : IsFullSet(FilesByVer(items, ver))},
         LAMBDA full : IF full = {} THEN None
                       ELSE Some(CHOOSE ver \in full : \A w \in full : w >= ver))

\* the version the loop over sorted(all_content_versions, reverse=True) stops at
FreshVersion(items, versions) ==
    With({ver \in versions : IsFullSet(FilesByVer(items, ver))},
         LAMBDA full : IF full = {} THEN None
                       ELSE Some(CHOOSE ver \in full : \A w \in full : w <= ver))

MarkFresh(items, fresh) ==
    [k \in 1..Len(items) |->
        [items[k] EXCEPT !.is_fresh_data =
            /\ fresh # None
            /\ ~items[k].is_fake
            /\ items[k].dio.header[1].data_version = fresh[1]]]

\* NameGroup.__init__(blobs, cnk); err is the exception that leaves it, if any,
\* with the items as they are at that point
ContentVersions(marked, hs) ==
    {hs[k].val.data_version : k \in {j \in 1..Len(marked) : ~marked[j].is_fake}}

\* the items with the decoders as the header accesses up to hs[bad] left them
AfterHeaders(marked, hs, bad) ==
    [k \in 1..Len(marked) |->
        IF bad = 0 \/ k <= bad THEN [marked[k] EXCEPT !.dio = hs[k].d]
        ELSE marked[k]]

NameGroup(bs, cnk) ==
    With(MarkFakes(ScanBlobs(bs, cnk)),
      LAMBDA marked :
        With(ContentHeaders(marked),
          LAMBDA hs :
            With(FirstRaise(hs),
              LAMBDA bad :
                With(AfterHeaders(marked, hs, bad),
                  LAMBDA read :
                    IF bad # 0
                    THEN [cnk |-> cnk, err |-> hs[bad].err, items |-> read,
                          all_content_versions |-> {}, skipped |-> Skipped(bs, cnk)]
                    ELSE With(ContentVersions(marked, hs),
                      LAMBDA versions :
                        [cnk |-> cnk, err |-> "",
                         items |-> MarkFresh(read, FreshVersion(read, versions)),
                         all_content_versions |-> versions,
                         skipped |-> Skipped(bs, cnk)])))))

\* the property fresh_content_files
fresh_content_files(g) ==
    With(SelectSeq(g.items, LAMBDA gf : gf.is_fresh_data),
         LAMBDA fresh : [k \in 1..Len(fresh) |-> fresh[k].dio])

NewNameGroup(cnk) ==
    /\ \E g \in {NameGroup(blobs, cnk)} :
           /\ ng' = Some(g)
           /\ last' = Outcome("NameGroup", g.err, None)
    /\ UNCHANGED <<enc, outfile, blobs, origin, dio, first, disk, store>>

\* ------------------------------------------------------------------------
\* Initial state
\* ------------------------------------------------------------------------
\* no file written yet: the target and the temporary file absent
NoDisk == [target |-> None, dirty |-> None, pc |-> "idle", calls |-> 0]

\* no set call made yet
NoStore == [sets |-> 0, payload |-> << >>, nonempty |-> TRUE]

Init ==
    /\ enc = None
    /\ outfile = << >>
    /\ blobs = << >>
    /\ origin = << >>
    /\ dio = None
    /\ first = NoFirst
    /\ ng = None
    /\ disk = NoDisk
    /\ store = [k \in {CodenameKey(1), CodenameKey(2)} |-> NoStore]
    /\ last = Outcome("start", "", None)

\* ------------------------------------------------------------------------
\* Inputs
\* ------------------------------------------------------------------------
Key1 == CodenameKey(1)

Key2 == CodenameKey(2)

Keys == {Key1, Key2}

Args(cnk, data_version, part_idx, parts_len, part_size) ==
    [cnk |-> cnk, data_version |-> data_version, part_idx |-> part_idx,
     parts_len |-> parts_len, part_size |-> part_size]

Draw(a, b, c, ip, pad, tail) ==
    [a |-> a, b |-> b, c |-> c, ip |-> ip, pad |-> pad, tail |-> tail, head |-> << >>]

Source(bytes, pos) == [bytes |-> bytes, pos |-> pos]

\* Arguments of Encrypt: the accepted ones at the ends of every range, and
\* one out of range in each way
EncryptArgs ==
    {Args(k, 300, p[1], p[2], s) :
        k \in Keys,
        p \in {<<0, 1>>, <<1, 2>>, <<255, 256>>, <<1, 1>>},
        s \in {None, Some(0), Some(MAX_PART_CONTENT_SIZE)}}
    \cup {Args(Key1, v, 0, 1, None) : v \in {0, -2}}
    \cup {Args(Key1, 0, p[1], p[2], Some(1)) :
            p \in {<<-1, 1>>, <<256, 256>>, <<0, 0>>, <<0, 257>>}}
    \cup {Args(Key1, 0, 0, 1, Some(s)) : s \in {-1, MAX_PART_CONTENT_SIZE + 1}}

\* A source (empty, one byte, the largest part, one byte more, a stream that
\* has been read from) with what the random sources give the call: no intro
\* padding (0 and 64), some, the most (255); the least, a middle and the
\* greatest target size; and two equal imprints
IoInputs ==
    {<<Source(<< >>, 0), Draw(1, 2, 3, 0, 4, 0)>>,
     <<Source(<<65>>, 0), Draw(2, 1, 5, 67, 6, 2)>>,
     <<Source(Fill(9, MAX_PART_CONTENT_SIZE), 0), Draw(1, 2, 3, 255, 4, 1)>>,
     <<Source(Fill(9, MAX_PART_CONTENT_SIZE), 0), Draw(1, 2, 5, 64, 6, 0)>>,
     <<Source(Fill(9, MAX_PART_CONTENT_SIZE + 1), 0), Draw(1, 2, 5, 64, 6, 2)>>,
     <<Source(Fill(9, MAX_PART_CONTENT_SIZE + 1), 0), Draw(2, 1, 3, 255, 4, 0)>>,
     <<Source(Fill(9, MAX_PART_CONTENT_SIZE + 1), 1), Draw(1, 2, 3, 67, 4, 1)>>,
     <<Source(<<65>>, 0), Draw(1, 1, 3, 0, 4, 0)>>}

\* ------------------------------------------------------------------------
\* Spec: one Encrypt, one io_to_io, then a decoder over the blob written,
\* asked in any order, any number of times
\* ------------------------------------------------------------------------
DecoderCalls ==
    \/ GetBelongsToNamegroup
    \/ GetContainsData
    \/ GetHeader
    \/ ReadData

Next ==
    \/ /\ last.op = "start"
       /\ \E a \in EncryptArgs :
            NewEncrypt(a.cnk, a.data_version, a.part_idx, a.parts_len, a.part_size)
    \/ /\ last.op = "Encrypt"
       /\ \E io \in IoInputs : IoToIo(io[1].bytes, io[1].pos, io[2])
    \/ /\ dio = None
       /\ \E k \in Keys : NewDio(k, 1)
    \/ DecoderCalls

Spec == Init /\ [][Next]_vars

\* ------------------------------------------------------------------------
\* SpecDamage: one blob (a real one or a fake), possibly damaged on disk by
\* one flipped bit or by truncation, then a decoder over it under either key
\* ------------------------------------------------------------------------
DamageArgs ==
    {Args(Key1, -2, 1, 2, Some(MAX_PART_CONTENT_SIZE)),
     Args(Key1, 7, 0, 1, Some(0))}

\* the tail bytes that, read as a body CRC by a decoder that stands at the
\* end of a blob with an empty body, decrypt to the CRC of no bytes
LuckyHead(fpk, c, ip) ==
    CipherApply(CipherAdvance(Cryptographer(fpk, Fill(c, ENCRYPTION_NONCE_LEN)),
                              1 + first_byte_to_len(ip) + HEADER_LEN
                                + HEADER_CHECKSUM_LEN + 4),
                crc32(<< >>))

DamageIo ==
    {<<Source(Fill(9, MAX_PART_CONTENT_SIZE), 0),
       [Draw(1, 2, 3, 67, 4, 2) EXCEPT !.head = LuckyHead(Key1, 3, 67)]>>,
     <<Source(<< >>, 0), Draw(2, 1, 5, 0, 6, 0)>>}

\* the bytes of a real blob from the first header byte to the last body CRC
\* byte; of a blob with an empty body, the body CRC alone
DamageRange(i) ==
    IF origin[i].part_size > 0
    THEN origin[i].header_at .. (origin[i].current_size - 1)
    ELSE (origin[i].current_size - 4) .. (origin[i].current_size - 1)

\* a place in each imprint
ImprintPlaces == {IMPRINT_NONCE_LEN, FULL_LEN + 1}

\* the cuts: inside each imprint, the nonce, the header, the body CRC
Cuts(i) ==
    {FULL_LEN - 1, 2 * FULL_LEN - 1, 2 * FULL_LEN + 3}
    \cup (IF origin[i].kind = "real"
          THEN {origin[i].header_at + 5, origin[i].current_size - 2}
          ELSE {})

NextDamage ==
    \/ /\ last.op = "start"
       /\ \E a \in DamageArgs :
            NewEncrypt(a.cnk, a.data_version, a.part_idx, a.parts_len, a.part_size)
    \/ /\ last.op = "Encrypt"
       /\ \E io \in DamageIo : IoToIo(io[1].bytes, io[1].pos, io[2])
    \/ /\ last.op = "start"
       /\ CreateFake(Key1, 7, 8)
    \/ /\ Len(blobs) = 1
       /\ \E at \in (IF origin[1].kind = "real" THEN DamageRange(1) ELSE {})
                      \cup ImprintPlaces :
            \E bit \in 0..7 : FlipBit(1, at, bit)
    \/ /\ Len(blobs) = 1
       /\ \E n \in Cuts(1) : Truncate(1, n)
    \/ /\ dio = None
       /\ \E k \in Keys : NewDio(k, 1)
    \/ DecoderCalls

SpecDamage == Init /\ [][NextDamage]_vars

\* ------------------------------------------------------------------------
\* SpecGroup: up to MaxBlobs blobs are put in the directory (real parts of
\* two versions of Key1, a part under Key2, fakes of Key1), at most one of
\* them is damaged in its nonce or header, and a NameGroup is built over them
\* ------------------------------------------------------------------------
MaxBlobs == 3

GroupArgs ==
    {Args(Key1, 1, 0, 1, Some(1)),
     Args(Key1, 2, 0, 2, Some(1)),
     Args(Key1, 2, 1, 2, Some(1)),
     Args(Key2, 3, 0, 1, Some(1))}

GroupIo == <<Source(<<65, 66>>, 0), Draw(1, 2, 3, 66, 4, 2)>>

\* a bit of FORMAT_ID, its top bit, a bit of FORMAT_VER, of the part index
\* and of the header CRC
HeaderFlips(i) ==
    {<<origin[i].header_at, 0>>, <<origin[i].header_at + 1, 7>>,
     <<origin[i].header_at + 2, 1>>, <<origin[i].header_at + 16, 0>>,
     <<origin[i].header_at + HEADER_LEN, 3>>}

\* the stream ends inside the first imprint, inside the second, inside the
\* nonce, inside the header
HeaderCuts(i) ==
    {FULL_LEN - 6, FULL_LEN + 10, 2 * FULL_LEN + 3, origin[i].header_at + 5}

Undamaged == \A j \in 1..Len(blobs) : origin[j].flipped = 0 /\ ~origin[j].cut

NextGroup ==
    \/ /\ Len(blobs) < MaxBlobs
       /\ ng = None
       /\ last.op # "Encrypt"
       /\ \E a \in GroupArgs :
            NewEncrypt(a.cnk, a.data_version, a.part_idx, a.parts_len, a.part_size)
    \/ /\ last.op = "Encrypt"
       /\ IoToIo(GroupIo[1].bytes, GroupIo[1].pos, GroupIo[2])
    \/ /\ Len(blobs) < MaxBlobs
       /\ ng = None
       /\ last.op # "Encrypt"
       /\ CreateFake(Key1, 7, 8)
    \/ /\ last.op = "io_to_io"
       /\ Undamaged
       /\ \E f \in HeaderFlips(Len(blobs)) : FlipBit(Len(blobs), f[1], f[2])
    \/ /\ last.op = "io_to_io"
       /\ Undamaged
       /\ \E n \in HeaderCuts(Len(blobs)) : Truncate(Len(blobs), n)
    \/ /\ blobs # << >>
       /\ ng = None
       /\ last.op # "Encrypt"
       /\ \E k \in Keys : NewNameGroup(k)

SpecGroup == Init /\ [][NextGroup]_vars

\* ========================================================================
\* Properties
\* ========================================================================

\* C1 (Spec). Blob round trip: a decoder built with the key of the Encrypt
\* object over the bytes io_to_io wrote reports belongs_to_namegroup and
\* contains_data true, its header carries the data_version, parts_len and
\* part_idx given to Encrypt, the part size, and the size of the source
\* stream as data_size, and read_data returns the part_size bytes io_to_io
\* read from the source.
C1_RoundTrip ==
    (dio # None /\ origin[1].kind = "real" /\ dio[1].fpk = origin[1].cnk) =>
        LET o == origin[1]
            part_size == IF o.args.part_size = None THEN Len(o.src)
                         ELSE o.args.part_size[1]
        IN  /\ last.op = "belongs_to_namegroup" => (last.err = "" /\ last.val = TRUE)
            /\ last.op = "contains_data" => (last.err = "" /\ last.val = TRUE)
            /\ last.op = "header" =>
                 /\ last.err = ""
                 /\ last.val = Header(1, o.args.data_version, Len(o.src),
                                      o.args.parts_len, o.args.part_idx, part_size)
            /\ (last.op = "read_data" /\ ~last.again) =>
                 /\ last.err = ""
                 /\ last.val = SubBytes(o.src, o.srcpos, part_size)

\* the largest part, of a source that had been read from, as the last of 256
\* parts, has been read back
C1_Witness ==
    /\ dio # None
    /\ dio[1].fpk = origin[1].cnk
    /\ last.op = "read_data"
    /\ last.err = ""
    /\ last.val = SubBytes(Fill(9, MAX_PART_CONTENT_SIZE + 1), 1, MAX_PART_CONTENT_SIZE)
    /\ dio[1].header # None
    /\ dio[1].header[1].parts_len = 256
    /\ dio[1].header[1].part_idx = 255

C7_SameAsFirst ==
    (/\ dio # None
     /\ last.op \in {"belongs_to_namegroup", "contains_data", "header"}
     /\ last.again) =>
        /\ last.err = first[last.op][1].err
        /\ last.err = "" => last.val = first[last.op][1].val
        /\ dio[1].pos = last.pos0

\* C8 as the claim states it (SpecDamage). Once read_data has been called
\* on a decoder, every later read_data call on it ends with an error and
\* returns no bytes, and the tiers that had given a value keep giving it,
\* leaving the stream where it stood.
C8_OneShot ==
    (dio # None /\ first.read_data # None /\ last.again) =>
        IF last.op = "read_data"
        THEN last.err # ""
        ELSE first[last.op][1].err = "" =>
                /\ last.err = ""
                /\ last.val = first[last.op][1].val
                /\ dio[1].pos = last.pos0

\* C9 (SpecDamage). Over a blob whose ImprintA does not verify under the
\* key, header and read_data raise GroupImprintMismatch and contains_data
\* returns false without reading ImprintB; over a blob whose ImprintA
\* verifies and whose ImprintB does not, header and read_data raise
\* ItemImprintMismatch.  In both cases the decoder has no cipher and no
\* header, and its stream never stands beyond the imprint that failed.
C9_TierGuards ==
    dio # None =>
        LET d == dio[1]
            a_ok == /\ Len(d.data) >= FULL_LEN
                    /\ pk_matches_imprint_bytes(d.fpk, SubBytes(d.data, 0, FULL_LEN))
            b_ok == /\ Len(d.data) >= 2 * FULL_LEN
                    /\ pk_matches_imprint_bytes(d.fpk,
                                                SubBytes(d.data, FULL_LEN, FULL_LEN))
        IN  /\ ~a_ok =>
                /\ d.cfg = None /\ d.header = None /\ d.contains = None
                /\ d.pos <= FULL_LEN
                /\ last.op \in {"header", "read_data"} =>
                       last.err = "GroupImprintMismatch"
                /\ last.op \in {"belongs_to_namegroup", "contains_data"} =>
                       (last.err = "" /\ last.val = FALSE)
            /\ (a_ok /\ ~b_ok) =>
                /\ d.cfg = None /\ d.header = None
                /\ d.pos <= 2 * FULL_LEN
                /\ last.op \in {"header", "read_data"} =>
                       last.err = "ItemImprintMismatch"
                /\ last.op = "contains_data" => (last.err = "" /\ last.val = FALSE)

\* read_data has been refused on a fake, after contains_data was asked
C9_Witness ==
    /\ dio # None
    /\ origin[1].kind = "fake"
    /\ origin[1].flipped = 0
    /\ ~origin[1].cut
    /\ dio[1].fpk = origin[1].cnk
    /\ first.contains_data # None
    /\ last.op = "read_data"
    /\ last.err = "ItemImprintMismatch"
    /\ dio[1].pos = 2 * FULL_LEN

\* C10 as the claim states it (SpecDamage). With one bit flipped in the
\* header or its CRC, the first reading of the header fails with
\* ChecksumMismatch; with one bit flipped in the body or its CRC, read_data
\* raises ChecksumMismatch.
C10_FlipIsChecksumMismatch ==
    (/\ dio # None
     /\ origin[1].kind = "real"
     /\ dio[1].fpk = origin[1].cnk
     /\ origin[1].flipped # 0
     /\ (origin[1].flipped - 1) \div 8 >= origin[1].header_at) =>
        LET off == (origin[1].flipped - 1) \div 8 - origin[1].header_at
        IN  IF off < HEADER_LEN + HEADER_CHECKSUM_LEN
            THEN (last.op = "header" /\ last.pos0 <= 2 * FULL_LEN) =>
                     last.err = "ChecksumMismatch"
            ELSE (last.op = "read_data" /\ ~last.again) =>
                     last.err = "ChecksumMismatch"

\* C10 (SpecDamage). With one bit flipped in the header or its CRC, the
\* first reading of the header (by header or by read_data) fails: with
\* UnicodeDecodeError or AssertionError when the bit is in FORMAT_ID, with
\* AssertionError when it is in FORMAT_VER, with ChecksumMismatch elsewhere.
\* With one bit flipped in the body or its CRC the header is read as written
\* and the first read_data raises ChecksumMismatch.
C10_FlipRejected ==
    (/\ dio # None
     /\ origin[1].kind = "real"
     /\ dio[1].fpk = origin[1].cnk
     /\ origin[1].flipped # 0
     /\ (origin[1].flipped - 1) \div 8 >= origin[1].header_at) =>
        LET o == origin[1]
            off == (o.flipped - 1) \div 8 - o.header_at
            bit == (o.flipped - 1) % 8
        IN  IF off < HEADER_LEN + HEADER_CHECKSUM_LEN
            THEN (last.op \in {"header", "read_data"} /\ last.pos0 <= 2 * FULL_LEN) =>
                     last.err = IF off < 2 /\ bit = 7 THEN "UnicodeDecodeError"
                                ELSE IF off < 2 + VERSION_LEN THEN "AssertionError"
                                ELSE "ChecksumMismatch"
            ELSE /\ last.op = "header" =>
                     /\ last.err = ""
                     /\ last.val = Header(1, o.args.data_version, Len(o.src),
                                          o.args.parts_len, o.args.part_idx,
                                          o.part_size)
                 /\ (last.op = "read_data" /\ ~last.again) =>
                     last.err = "ChecksumMismatch"

\* the header of a blob with a bit of FORMAT_VER flipped has been refused
\* by the assertion
C10_Witness ==
    /\ dio # None
    /\ origin[1].kind = "real"
    /\ dio[1].fpk = origin[1].cnk
    /\ origin[1].flipped # 0
    /\ (origin[1].flipped - 1) \div 8 = origin[1].header_at + 2
    /\ last.op = "header"
    /\ last.pos0 <= 2 * FULL_LEN
    /\ last.err = "AssertionError"

\* C2 as the claim states it (SpecGroup). A data version of the codename
\* with a part missing from the list is not marked fresh: the version marked
\* fresh is the highest one whose group is complete (as many blobs as its
\* parts_len, their part_idx values exactly 0..parts_len-1), and nothing is
\* marked fresh when no version is complete.
C2_PartialRejected ==
    (ng # None /\ ng[1].err = "") =>
        LET g == ng[1]
            own == {j \in 1..Len(blobs) :
                       origin[j].kind = "real" /\ origin[j].cnk = g.cnk}
            group(v) == {j \in own : origin[j].args.data_version = v}
            versions == {origin[j].args.data_version : j \in own}
            missing == {v \in versions :
                          \E m \in group(v) :
                             \E p \in 0..(origin[m].args.parts_len - 1) :
                                \A n \in group(v) : origin[n].args.part_idx # p}
            complete == {v \in versions :
                           /\ \A m \in group(v) :
                                 origin[m].args.parts_len = Cardinality(group(v))
                           /\ {origin[m].args.part_idx : m \in group(v)}
                                 = 0..(Cardinality(group(v)) - 1)}
            marked == {g.items[k].dio.header[1].data_version : k \in
                          {m \in 1..Len(g.items) : g.items[m].is_fresh_data}}
        IN  /\ marked \cap missing = {}
            /\ IF complete = {} THEN marked = {}
               ELSE marked = {CHOOSE v \in complete : \A w \in complete : w <= v}

\* C3 as the claim states it (SpecGroup). The blobs marked is_fresh_data
\* are as many as their parts_len, all carry that parts_len, and their
\* part_idx values are exactly 0..parts_len-1.
C3_FreshComplete ==
    (ng # None /\ ng[1].err = "") =>
        LET fresh == fresh_content_files(ng[1])
        IN  fresh # << >> =>
              /\ \A k \in 1..Len(fresh) : fresh[k].header[1].parts_len = Len(fresh)
              /\ {fresh[k].header[1].part_idx : k \in 1..Len(fresh)}
                    = 0..(Len(fresh) - 1)

\* C4 as the claim states it (SpecGroup). NameGroup is built without an
\* exception whatever the blobs hold, also when a blob that passes both
\* imprint checks has a header that cannot be read.
C4_NeverRaises ==
    ng # None => ng[1].err = ""

\* C6 (SpecGroup). The bytes create_fake_bytes returns for a key are
\* CLUSTER_SIZE long; a NameGroup of that key lists the blob with
\* belongs_to_namegroup true, contains_data false and is_fake true, never
\* with is_fresh_data, and every version in all_content_versions is the
\* data_version of a real blob of the key.
C6_FakeBlob ==
    \A i \in 1..Len(blobs) :
        origin[i].kind = "fake" =>
            /\ Len(blobs[i]) = CLUSTER_SIZE
            /\ (ng # None /\ ng[1].cnk = origin[i].cnk) =>
                 /\ \E k \in 1..Len(ng[1].items) :
                       /\ ng[1].items[k].idx = i - 1
                       /\ ng[1].items[k].dio.belongs = Some(TRUE)
                       /\ ng[1].items[k].dio.contains = Some(FALSE)
                       /\ ng[1].items[k].is_fake
                       /\ ~ng[1].items[k].is_fresh_data
                 /\ ng[1].all_content_versions \subseteq
                       {origin[j].args.data_version : j \in
                          {m \in 1..Len(blobs) :
                             origin[m].kind = "real" /\ origin[m].cnk = ng[1].cnk}}

\* a NameGroup over a fake that stands between the two parts of a version
\* has marked the two parts fresh
C6_Witness ==
    /\ ng # None
    /\ ng[1].err = ""
    /\ Len(blobs) = 3
    /\ origin[2].kind = "fake"
    /\ ng[1].cnk = origin[2].cnk
    /\ ng[1].all_content_versions = {2}
    /\ Len(fresh_content_files(ng[1])) = 2

\* C11 (Spec). Encrypt(...) raises ValueError, constructs nothing and
\* neither reads nor writes, exactly when part_idx is outside 0..255,
\* parts_len is outside 1..256, part_size is given and outside
\* 0..MAX_PART_CONTENT_SIZE, or part_size is not given while parts_len > 1
\* or part_idx # 0; with any other arguments it returns the object holding
\* them.
C11_ArgValidation ==
    last.op = "Encrypt" =>
        LET a == last.val[1]
            bad == \/ a.part_idx \notin 0..255
                   \/ a.parts_len \notin 1..256
                   \/ /\ a.part_size # None
                      /\ a.part_size[1] \notin 0..MAX_PART_CONTENT_SIZE
                   \/ /\ a.part_size = None
                      /\ (a.parts_len > 1 \/ a.part_idx # 0)
        IN  /\ bad => (last.err = "ValueError" /\ enc = None)
            /\ ~bad => (last.err = "" /\ enc = Some(a))
            /\ outfile = << >>
            /\ blobs = << >>

\* the last of 256 parts was asked for with no part_size, and refused
C11_Witness ==
    /\ last.op = "Encrypt"
    /\ last.err = "ValueError"
    /\ last.val[1].part_size = None
    /\ last.val[1].part_idx = 255
    /\ last.val[1].parts_len = 256
    /\ enc = None

\* C12 as the claim states it (Spec). Encrypt refuses part_idx >= parts_len
\* with ValueError, no blob is written for such a request, and the header
\* of every blob written has part_idx < parts_len.
C12_IdxBelowLen ==
    /\ (last.op = "Encrypt" /\ last.val[1].part_idx >= last.val[1].parts_len) =>
           last.err = "ValueError"
    /\ \A i \in 1..Len(blobs) :
           origin[i].kind = "real" => origin[i].args.part_idx < origin[i].args.parts_len
    /\ (dio # None /\ last.op = "header" /\ last.err = "") =>
           last.val.part_idx < last.val.parts_len

\* C13 as the claim states it (Spec). Every blob io_to_io writes has
\* PART_SIZE <= MAX_PART_CONTENT_SIZE, also when part_size was taken from
\* the size of the source; an io_to_io call that fails has written no byte;
\* and the bytes written before the tail padding never exceed MAX_BLOB_SIZE.
C13_PartSizeBounded ==
    /\ \A i \in 1..Len(blobs) :
           origin[i].kind = "real" =>
               /\ origin[i].part_size <= MAX_PART_CONTENT_SIZE
               /\ origin[i].current_size <= MAX_BLOB_SIZE
    /\ (last.op = "io_to_io" /\ last.err # "") => outfile = << >>
    /\ Len(outfile) <= MAX_BLOB_SIZE

\* C14 (Spec). When the source holds fewer than part_size bytes from its
\* position, io_to_io raises InsufficientData and has written no byte: the
\* body is read before the imprints, the nonce and the encrypted fields are
\* written.  The call gets that far when the two imprints it drew differ
\* (the assert of line 189).
C14_ShortSource ==
    [][\A io \in IoInputs :
          (/\ last.op = "Encrypt"
           /\ enc # None
           /\ enc[1].part_size # None
           /\ Len(io[1].bytes) - io[1].pos < enc[1].part_size[1]
           /\ io[2].a # io[2].b
           /\ IoToIo(io[1].bytes, io[1].pos, io[2]))
          => /\ last'.op = "io_to_io"
             /\ last'.err = "InsufficientData"
             /\ outfile' = << >>
             /\ blobs' = blobs]_vars

C14_Witness ==
    /\ last.op = "io_to_io"
    /\ last.err = "InsufficientData"
    /\ enc # None
    /\ enc[1].part_size = Some(MAX_PART_CONTENT_SIZE)
    /\ outfile = << >>
    /\ blobs = << >>

\* ------------------------------------------------------------------------
\* Encrypt.io_to_file(source_io, target_file).  WritingToTempFile gives a
\* temporary sibling of the target (wtf.dirty); the blob is written to it,
\* the file is closed, and wtf.replace() renames it over the target in one
\* step.  disk.pc is where the call stands: "closed" after io_to_io
\* returned and the dirty file was closed, "raised" after io_to_io raised,
\* "killed" after the process was killed, "done" after the replace.
\* ------------------------------------------------------------------------
MaxFileCalls == 2

\* a faulty variant: the replace made however the writing ended
CanReplace_always(d) == d.pc \in {"closed", "raised", "killed"}

\* wtf.replace() is reached only past the with-block that wrote and closed
\* the dirty file
CanReplace(d) == d.pc = "closed"

\* lines 278-281: the dirty file opened with 'wb', io_to_io, the file closed
IoToFileWrite(src, srcpos, draw) ==
    /\ enc # None
    /\ \E r \in {io_to_io(enc[1], src, srcpos, draw)} :
           /\ enc' = Some([enc[1] EXCEPT !.part_size = r.part_size])
           /\ outfile' = r.out
           /\ disk' = [disk EXCEPT !.dirty = Some(r.out),
                                   !.pc = IF r.err = "" THEN "closed" ELSE "raised",
                                   !.calls = @ + 1]
           /\ last' = Outcome("io_to_file", r.err, None)
    /\ UNCHANGED <<blobs, origin, dio, first, ng, store>>

\* lines 282-284: set_random_last_modified changes no content; replace()
IoToFileReplace ==
    /\ last.op = "io_to_file"
    /\ CanReplace(disk)
    /\ disk' = [disk EXCEPT !.target = disk.dirty, !.dirty = None, !.pc = "done"]
    /\ last' = Outcome("replace", "", None)
    /\ UNCHANGED <<enc, outfile, blobs, origin, dio, first, ng, store>>

\* the byte offsets at which the writing is cut: before the first byte, in
\* and after the imprints, after the nonce, before the tail, before the end
KillOffsets(r) ==
    {0, 1, FULL_LEN, 2 * FULL_LEN + ENCRYPTION_NONCE_LEN, r.current_size,
     Len(r.out) - 1, Len(r.out)} \cap 0..Len(r.out)

\* the process killed inside io_to_io, n bytes of the blob in the dirty file
KillInWrite(src, srcpos, draw) ==
    /\ enc # None
    /\ \E r \in {io_to_io(enc[1], src, srcpos, draw)} :
         \E n \in KillOffsets(r) :
           /\ outfile' = SubBytes(r.out, 0, n)
           /\ disk' = [disk EXCEPT !.dirty = Some(SubBytes(r.out, 0, n)),
                                   !.pc = "killed", !.calls = @ + 1]
    /\ enc' = None
    /\ last' = Outcome("io_to_file", "killed", None)
    /\ UNCHANGED <<blobs, origin, dio, first, ng, store>>

\* the process killed after the dirty file was closed, before the replace
KillBeforeReplace ==
    /\ last.op = "io_to_file"
    /\ disk.pc = "closed"
    /\ disk' = [disk EXCEPT !.pc = "killed"]
    /\ enc' = None
    /\ last' = Outcome("io_to_file", "killed", None)
    /\ UNCHANGED <<outfile, blobs, origin, dio, first, ng, store>>

FileArgs ==
    {Args(Key1, 1, 0, 1, None), Args(Key1, 2, 0, 1, Some(1))}

\* a source that fits, one that is short for part_size 1, and one that is
\* oversize with the longest intro padding
FileIo ==
    {<<Source(<<65>>, 0), Draw(2, 1, 5, 67, 6, 2)>>,
     <<Source(<< >>, 0), Draw(1, 2, 3, 0, 4, 0)>>,
     <<Source(Fill(9, MAX_PART_CONTENT_SIZE + 1), 0), Draw(1, 2, 5, 64, 6, 2)>>}

NextFile ==
    \/ /\ disk.pc \in {"idle", "done", "raised", "killed"}
       /\ disk.calls < MaxFileCalls
       /\ last.op # "Encrypt"
       /\ \E a \in FileArgs :
            NewEncrypt(a.cnk, a.data_version, a.part_idx, a.parts_len, a.part_size)
    \/ /\ last.op = "Encrypt"
       /\ \E io \in FileIo : IoToFileWrite(io[1].bytes, io[1].pos, io[2])
    \/ /\ last.op = "Encrypt"
       /\ \E io \in FileIo : KillInWrite(io[1].bytes, io[1].pos, io[2])
    \/ IoToFileReplace
    \/ KillBeforeReplace

SpecFile == Init /\ [][NextFile]_vars

\* C15 (SpecFile). io_to_file changes the target only in the replace step:
\* the step is taken after io_to_io returned without raising and the dirty
\* file was closed, and it makes the target the whole blob that io_to_io
\* wrote.  When io_to_io raises or the process is killed before the
\* replace, the target keeps the content it had (or stays absent).
C15_AtomicReplace ==
    [][/\ disk'.target # disk.target =>
            /\ disk.pc = "closed"
            /\ last.op = "io_to_file" /\ last.err = ""
            /\ disk.dirty = Some(outfile)
            /\ disk'.target = disk.dirty
            /\ disk'.pc = "done"
       /\ disk'.pc \in {"raised", "killed"} => disk'.target = disk.target]_vars

C15_Witness ==
    /\ disk.pc = "done"
    /\ disk.calls = MaxFileCalls
    /\ disk.target = Some(outfile)
    /\ Len(outfile) = MAX_BLOB_SIZE
    /\ disk.dirty = None

\* C16 as the claim states it (SpecGroup). When two complete groups of the
\* codename carry the same data_ver, and no higher version has a complete
\* group, the blobs marked is_fresh_data are exactly one complete group of
\* that version, the one holding the first of these blobs in blob order:
\* the resolver neither falls to a lower version nor leaves the fresh set
\* empty.
C16_TieBreak ==
    (ng # None /\ ng[1].err = "") =>
        LET g == ng[1]
            own == {j \in 1..Len(blobs) :
                       /\ origin[j].kind = "real" /\ origin[j].cnk = g.cnk
                       /\ origin[j].flipped = 0 /\ ~origin[j].cut}
            groups(v) == {G \in SUBSET {j \in own : origin[j].args.data_version = v} :
                            /\ G # {}
                            /\ \A m \in G : origin[m].args.parts_len = Cardinality(G)
                            /\ {origin[m].args.part_idx : m \in G}
                                  = 0..(Cardinality(G) - 1)}
            versions == {origin[j].args.data_version : j \in own}
            tied == {v \in versions :
                       /\ \E G1 \in groups(v) : \E G2 \in groups(v) : G1 \cap G2 = {}
                       /\ \A w \in versions : w > v => groups(w) = {}}
            marked == {g.items[k].idx + 1 :
                          k \in {m \in 1..Len(g.items) : g.items[m].is_fresh_data}}
        IN  \A v \in tied :
               /\ marked \in groups(v)
               /\ \A G \in groups(v) : \A m \in G : \E n \in marked : n <= m

\* ------------------------------------------------------------------------
\* The store over a container of blobs: set replaces the real blobs of the
\* codename by the parts of the new payload under the next data version,
\* get resolves the fresh set and joins its parts.  blobs is the container.
\* ------------------------------------------------------------------------
MaxSets == 3

\* ceil(size / MAX_PART_CONTENT_SIZE)
PartsCount(size) ==
    (size + MAX_PART_CONTENT_SIZE - 1) \div MAX_PART_CONTENT_SIZE

\* the data version of the fresh group (0 if there is none)
FreshDataVer(g) ==
    With(fresh_content_files(g),
         LAMBDA fresh : IF fresh = << >> THEN 0
                        ELSE fresh[1].header[1].data_version)

\* what the random sources give the writing of part i
PartDraw(i) == Draw(1 + 2 * i, 2 + 2 * i, 3 + i, 66, 4, 2)

PartSize(payload, i) ==
    IF Len(payload) - i * MAX_PART_CONTENT_SIZE < MAX_PART_CONTENT_SIZE
    THEN Len(payload) - i * MAX_PART_CONTENT_SIZE
    ELSE MAX_PART_CONTENT_SIZE

\* part i of n as Encrypt(...).io_to_io writes it, the source standing
\* where the part starts
NewPart(cnk, ver, i, n, payload) ==
    With(Args(cnk, ver, i, n, Some(PartSize(payload, i))),
      LAMBDA e :
        With(io_to_io(e, payload, i * MAX_PART_CONTENT_SIZE, PartDraw(i)),
          LAMBDA r : [blob |-> r.out,
                      origin |-> RealOrigin(e, payload, i * MAX_PART_CONTENT_SIZE,
                                            PartDraw(i), r)]))

\* the places of the container that set keeps: every blob but the real
\* blobs of the codename
KeptPlaces(bs, g) ==
    {j \in 1..Len(bs) :
        ~\E k \in 1..Len(g.items) : g.items[k].idx = j - 1 /\ ~g.items[k].is_fake}

\* the elements of s at the places keep, in their order
KeepSeq(s, keep) ==
    With(CHOOSE f \in [1..Cardinality(keep) -> keep] :
            \A a \in 1..Cardinality(keep) : \A b \in 1..Cardinality(keep) :
                a < b => f[a] < f[b],
         LAMBDA f : [k \in 1..Cardinality(keep) |-> s[f[k]]])

\* set(name, payload)
SetFromFile(cnk, payload) ==
    /\ store[cnk].sets < MaxSets
    /\ \E g \in {NameGroup(blobs, cnk)} :
       \E n \in {PartsCount(Len(payload))} :
       \E new \in {[i \in 1..n |-> NewPart(cnk, FreshDataVer(g) + 1, i - 1, n, payload)]} :
         /\ g.err = ""
         /\ blobs' = KeepSeq(blobs, KeptPlaces(blobs, g))
                        \o [i \in 1..n |-> new[i].blob]
         /\ origin' = KeepSeq(origin, KeptPlaces(blobs, g))
                        \o [i \in 1..n |-> new[i].origin]
    /\ store' = [store EXCEPT ![cnk] =
                    [sets |-> @.sets + 1, payload |-> payload,
                     nonempty |-> @.nonempty /\ payload # << >>]]
    /\ last' = Outcome("set", "", None)
    /\ UNCHANGED <<enc, outfile, dio, first, ng, disk>>

RECURSIVE JoinParts(_, _)
\* the bodies of the decoders ds from the k-th on, joined
JoinParts(ds, k) ==
    IF k > Len(ds) THEN [err |-> "", val |-> << >>]
    ELSE With(read_data(ds[k]),
      LAMBDA r :
        IF r.err # "" THEN [err |-> r.err, val |-> << >>]
        ELSE With(JoinParts(ds, k + 1),
          LAMBDA rest : [err |-> rest.err, val |-> r.val \o rest.val]))

\* get(name): None when the fresh set is empty, else the parts joined in
\* part_idx order, their sizes adding up to FULL_SIZE
CryptoDirGet(bs, cnk) ==
    With(NameGroup(bs, cnk),
      LAMBDA g :
        IF g.err # "" THEN [err |-> g.err, val |-> None]
        ELSE With(SortSeq(fresh_content_files(g),
                          LAMBDA a, b : a.header[1].part_idx < b.header[1].part_idx),
          LAMBDA fresh :
            IF fresh = << >> THEN [err |-> "", val |-> None]
            ELSE With(JoinParts(fresh, 1),
              LAMBDA j :
                IF j.err # "" THEN [err |-> j.err, val |-> None]
                ELSE IF Len(j.val) # fresh[1].header[1].data_size
                     THEN [err |-> "ChecksumMismatch", val |-> None]
                     ELSE [err |-> "", val |-> Some(j.val)])))

Get(cnk) ==
    /\ \E r \in {CryptoDirGet(blobs, cnk)} :
           last' = Outcome("get", r.err, r.val)
    /\ UNCHANGED <<enc, outfile, blobs, origin, dio, first, ng, disk, store>>

\* payloads: none, one byte, a full part, two parts
Payloads ==
    {<< >>, <<65>>, Fill(9, MAX_PART_CONTENT_SIZE), Fill(5, MAX_PART_CONTENT_SIZE + 1)}

NextDir ==
    \/ \E k \in Keys : \E p \in Payloads :
          /\ store[Key1].sets + store[Key2].sets < MaxSets
          /\ SetFromFile(k, p)
    \/ /\ last.op # "get"
       /\ \E k \in Keys : Get(k)
    \/ /\ \A j \in 1..Len(blobs) : origin[j].kind # "fake"
       /\ CreateFake(Key1, 7, 8)

SpecDir == Init /\ [][NextDir]_vars

C17_NoEntry ==
    (ng # None /\ ng[1].err = "" /\ Undamaged) =>
        LET g == ng[1]
            own == {j \in 1..Len(blobs) :
                       origin[j].kind = "real" /\ origin[j].cnk = g.cnk}
            complete == {G \in SUBSET own :
                            /\ G # {}
                            /\ \A m \in G : \A n \in G :
                                  origin[m].args.data_version = origin[n].args.data_version
                            /\ \A m \in G : origin[m].args.parts_len = Cardinality(G)
                            /\ {origin[m].args.part_idx : m \in G}
                                  = 0..(Cardinality(G) - 1)}
        IN  complete = {} =>
               /\ fresh_content_files(g) = << >>
               /\ CryptoDirGet(blobs, g.cnk) = [err |-> "", val |-> None]
               /\ \A k \in 1..Len(g.items) : ~g.items[k].dio.data_read

\* C19 (SpecGroup). NameGroup.items holds, in increasing index order,
\* exactly the blobs whose first imprint verifies under the key.  A blob
\* whose first imprint does not verify, one shorter than an imprint
\* included, has had neither contains_data nor header evaluated.  A blob
\* whose first imprint verifies and whose second does not, one cut inside
\* the second included, is marked is_fake and its header is not decrypted.
C19_Classification ==
    ng # None =>
        LET g == ng[1]
            verifiesA(i) ==
                /\ Len(blobs[i]) >= FULL_LEN
                /\ pk_matches_imprint_bytes(g.cnk, SubBytes(blobs[i], 0, FULL_LEN))
            verifiesB(i) ==
                /\ Len(blobs[i]) >= 2 * FULL_LEN
                /\ pk_matches_imprint_bytes(g.cnk, SubBytes(blobs[i], FULL_LEN, FULL_LEN))
        IN  /\ {g.items[k].idx : k \in 1..Len(g.items)}
                 = {i - 1 : i \in {j \in 1..Len(blobs) : verifiesA(j)}}
            /\ \A k \in 1..Len(g.items) : \A l \in 1..Len(g.items) :
                  k < l => g.items[k].idx < g.items[l].idx
            /\ Len(g.items) + Len(g.skipped) = Len(blobs)
            /\ \A k \in 1..Len(g.skipped) :
                  /\ ~verifiesA(g.skipped[k].idx + 1)
                  /\ g.skipped[k].dio.contains = None
                  /\ g.skipped[k].dio.header = None
                  /\ g.skipped[k].dio.cfg = None
            /\ \A k \in 1..Len(g.items) :
                  ~verifiesB(g.items[k].idx + 1) =>
                      /\ g.items[k].is_fake
                      /\ g.items[k].dio.contains = Some(FALSE)
                      /\ g.items[k].dio.header = None
                      /\ g.items[k].dio.cfg = None

\* a NameGroup over a blob of another codename and a blob of its own cut
\* inside the second imprint
C19_Witness ==
    /\ ng # None
    /\ Len(ng[1].skipped) > 0
    /\ \E k \in 1..Len(ng[1].items) :
          /\ ng[1].items[k].is_fake
          /\ origin[ng[1].items[k].idx + 1].kind = "real"
          /\ origin[ng[1].items[k].idx + 1].cut
          /\ Len(blobs[ng[1].items[k].idx + 1]) < 2 * FULL_LEN

MaxReuse == 2

ReuseArgs ==
    {Args(k, v, 0, 1, None) : k \in Keys, v \in {1, 300}}

\* sources of no byte, one byte and the largest part, each at its start,
\* the two imprints drawn different
ReuseIo ==
    {<<Source(<< >>, 0), Draw(1, 2, 3, 0, 4, 0)>>,
     <<Source(<<65>>, 0), Draw(2, 1, 5, 67, 6, 2)>>,
     <<Source(Fill(9, MAX_PART_CONTENT_SIZE), 0), Draw(1, 2, 3, 255, 4, 1)>>}

NextReuse ==
    \/ /\ last.op = "start"
       /\ \E a \in ReuseArgs :
            NewEncrypt(a.cnk, a.data_version, a.part_idx, a.parts_len, a.part_size)
    \/ /\ last.op \in {"Encrypt", "io_to_io"}
       /\ last.err = ""
       /\ Len(blobs) < MaxReuse
       /\ \E io \in ReuseIo : IoToIo(io[1].bytes, io[1].pos, io[2])
    \/ /\ dio = None
       /\ last.op = "io_to_io"
       /\ \E k \in Keys : NewDio(k, Len(blobs))
    \/ DecoderCalls

SpecReuse == Init /\ [][NextReuse]_vars

\* C21 as the claim states it (SpecReuse). For an Encrypt built without
\* part_size, every io_to_io call, a second one on the same object with a
\* source of another size included, writes a blob whose PART_SIZE and
\* FULL_SIZE are the size of the source of that call and whose body is the
\* whole source, and leaves the part_size of the object unset.
C21_Reuse ==
    /\ last.op = "io_to_io" =>
          /\ last.err = ""
          /\ enc[1].part_size = None
    /\ \A i \in 1..Len(blobs) : origin[i].part_size = Len(origin[i].src)
    /\ (dio # None /\ dio[1].fpk = origin[Len(blobs)].cnk) =>
          /\ (last.op = "header" /\ last.err = "") =>
                /\ last.val.part_size = Len(origin[Len(blobs)].src)
                /\ last.val.data_size = Len(origin[Len(blobs)].src)
          /\ (last.op = "read_data" /\ ~last.again) =>
                /\ last.err = ""
                /\ last.val = origin[Len(blobs)].src

====
